---- MODULE Spec2Model ----
(***************************************************************************)
(* Work-Manager (src/work.py): a command-line work-hour tracker and to-do  *)
(* list that keeps three JSON files in ~/.work_manager.  Every action      *)
(* below is one invocation of the program (one command of main), run to    *)
(* its exit; Tick is the wall clock advancing between invocations.  A      *)
(* later section follows stop one file operation at a time.                *)
(*                                                                         *)
(* Time is counted in ticks of 12 hours since Monday 2024-01-01 00:00      *)
(* local time, so that 30.5 days is a whole number of ticks; a clock       *)
(* reading is the tick the instant falls in.                               *)
(***************************************************************************)
EXTENDS Integers, Sequences, FiniteSets, TLC

\* ------------------------------------------------------------------ bounds
MaxEvents == 3     \* successful starts, clock steps and kills explored in one behaviour
MaxLog == 2        \* entries of a work log found on disk (SpecLog)
MaxItems == 2      \* items of a to-do list found on disk (SpecDeadlines)
MaxTodos == 1      \* items that add_todo may accumulate (Spec)
MaxSeconds == 3725 \* longest duration, in seconds, handed to the duration report

\* --------------------------------------------------------------- constants
DEFAULT_MONTHS_TO_KEEP == 6
Day == 2                      \* timedelta(days=1)
Week == 7 * Day               \* timedelta(weeks=1), timedelta(days=7)
MonthLen == 61                \* timedelta(days=30.5)

Steps == {1, DEFAULT_MONTHS_TO_KEEP * MonthLen}
\* Two clock reads of one invocation (stop_work's end_time, then the cutoff of
\* its automatic pruning) fall in the same tick or straddle a tick boundary.
Drift == {0, 1}
Months == {0, 1, DEFAULT_MONTHS_TO_KEEP}
Offsets == {0, -1}

VARIABLES
    clock,           \* datetime.now(), in ticks
    active_session,  \* ACTIVE_SESSION_FILE: <<>> (no file) or <<[start_time |-> iso]>>
    work_log,        \* WORK_LOG_FILE: sequence of [start |-> iso, end |-> iso]
    todos,           \* TODOS_FILE: sequence of to-do items
    service,         \* whether the systemd user service is enabled
    last,            \* record of the latest invocation: command, inputs, outputs, exit code
    hist,            \* successful starts, stops that logged, events so far, and the
                     \* clock reading of the latest successful start
    procs            \* the stop invocations followed one file operation at a time:
                     \* where each is in stop_work and what it holds in memory

vars == <<clock, active_session, work_log, todos, service, last, hist, procs>>
store == <<active_session, work_log, todos>>

\* stop is run by the user and by the systemd unit at shutdown (work-manager.service)
Procs == {"user", "hook"}
NotRunning == [pc |-> "idle", session |-> <<>>, end_time |-> 0, log |-> <<>>, before |-> <<>>]

\* ------------------------------------------------------------ date and time
\* datetime.isoformat(): the text "YYYY-MM-DDTHH:MM:SS", here <<date part, time part>>
isoformat(t) == <<t \div Day, t % Day>>
\* datetime.fromisoformat(): back to an instant
fromisoformat(s) == s[1] * Day + s[2]
\* date.today() / datetime.date(): calendar day number (0 = 2024-01-01)
date(t) == t \div Day
\* date.weekday(): Monday is 0
weekday(t) == date(t) % 7

\* ---------------------------------------------------------------- helpers
\* read_json_file: the file's content, or the default when the file is missing
read_json_file(file, default_data) == IF file = <<>> THEN default_data ELSE file

\* get_active_session: the marker's content or None (<<>>)
get_active_session == read_json_file(active_session, <<>>)

\* manage_systemd_service: systemctl succeeds, or fails and the function only warns
HookOutcomes == {"ok", "failed"}
manage_systemd_service(action, outcome) ==
    IF outcome = "ok" THEN action = "start" ELSE service

\* ------------------------------------------------- deadlines (YYYY-MM-DD)
\* A deadline text is <<y, m, d>> for "y-m-d", <<>> for "", <<0>> for any other text.
IsLeap(y) == (y % 4 = 0) /\ ((y % 100 # 0) \/ (y % 400 = 0))
DaysInMonth(y, m) ==
    CASE m \in {4, 6, 9, 11} -> 30
      [] m = 2 -> IF IsLeap(y) THEN 29 ELSE 28
      [] OTHER -> 31
RECURSIVE DaysBeforeMonth(_, _)
DaysBeforeMonth(y, m) == IF m <= 1 THEN 0 ELSE DaysBeforeMonth(y, m - 1) + DaysInMonth(y, m - 1)
DaysBeforeYear(y) == (y - 1) * 365 + (y - 1) \div 4 - (y - 1) \div 100 + (y - 1) \div 400
\* datetime.strptime(text, "%Y-%m-%d") raises ValueError unless this holds
strptime_ok(text) ==
    /\ Len(text) = 3
    /\ text[1] \in 1..9999
    /\ text[2] \in 1..12
    /\ text[3] \in 1..DaysInMonth(text[1], text[2])
\* ... and otherwise yields this calendar day (0 = 2024-01-01)
strptime(text) ==
    DaysBeforeYear(text[1]) + DaysBeforeMonth(text[1], text[2]) + text[3] - 1
        - DaysBeforeYear(2024)

\* --------------------------------------------------------- log aggregator
\* show_log, lines 125-128: the window [start_of_week, end_of_week)
start_of_current_week(today) == today - weekday(today) * Day
start_of_week(today, week_offset) == start_of_current_week(today) + week_offset * Week
\* (variant: the window is a day short)
end_of_week_six_days(today, week_offset) == start_of_week(today, week_offset) + 6 * Day
end_of_week(today, week_offset) == start_of_week(today, week_offset) + Week

\* show_log, line 137: the filter on an entry's start
in_week(start_time, today, week_offset) ==
    /\ start_of_week(today, week_offset) <= start_time
    /\ start_time < end_of_week(today, week_offset)

\* show_log, lines 135-141: the (start_time, duration) pairs of the matching entries
RECURSIVE week_sessions(_, _, _)
week_sessions(log, today, week_offset) ==
    IF log = <<>> THEN <<>>
    ELSE LET entry == Head(log)
             start_time == fromisoformat(entry.start)
             end_time == fromisoformat(entry.end)
         IN (IF in_week(start_time, today, week_offset)
             THEN <<[start |-> start_time, duration |-> end_time - start_time]>>
             ELSE <<>>) \o week_sessions(Tail(log), today, week_offset)

\* list.sort(key=lambda x: x[0]), line 147: stable, ascending by start
RECURSIVE insert_sorted(_, _)
insert_sorted(x, sorted) ==
    IF sorted = <<>> THEN <<x>>
    ELSE IF Head(sorted).start <= x.start
         THEN <<Head(sorted)>> \o insert_sorted(x, Tail(sorted))
         ELSE <<x>> \o sorted
\* (variant: the matches are listed in file order)
sort_by_start_skipped(sessions) == sessions
RECURSIVE sort_by_start(_)
sort_by_start(sessions) ==
    IF sessions = <<>> THEN <<>>
    ELSE insert_sorted(sessions[Len(sessions)], sort_by_start(SubSeq(sessions, 1, Len(sessions) - 1)))

\* weekly_total += duration, lines 132 and 140
RECURSIVE weekly_total(_)
weekly_total(sessions) ==
    IF sessions = <<>> THEN 0 ELSE Head(sessions).duration + weekly_total(Tail(sessions))

\* show_log: what one call prints
show_log(log, today, week_offset) ==
    LET found == week_sessions(log, today, week_offset) IN
    IF log = <<>>
    THEN [out |-> "log_empty", sessions |-> <<>>, total |-> 0]
    ELSE IF found = <<>>
    THEN [out |-> "no_sessions", sessions |-> <<>>, total |-> 0]
    ELSE [out |-> "report", sessions |-> sort_by_start(found), total |-> weekly_total(found)]

\* (variant: the months are counted as days)
cutoff_date_in_days(now, months_to_keep) == now - months_to_keep * Day
\* prune_old_logs, line 169
cutoff_date(now, months_to_keep) == now - months_to_keep * MonthLen
\* (variant: an entry that ends exactly at the cutoff is dropped)
keeps_strictly_newer(entry, cutoff) == fromisoformat(entry.end) > cutoff
\* prune_old_logs, line 174: the retention test on an entry
keeps(entry, cutoff) == fromisoformat(entry.end) >= cutoff
\* prune_old_logs, lines 172-175
logs_to_keep(log, cutoff) == SelectSeq(log, LAMBDA entry : keeps(entry, cutoff))
\* (variant: a single stale entry is not worth a write)
prune_old_logs_above_one(log, now, months_to_keep) ==
    IF log = <<>> THEN log
    ELSE LET kept == logs_to_keep(log, cutoff_date(now, months_to_keep))
             pruned_count == Len(log) - Len(kept)
         IN IF pruned_count > 1 THEN kept ELSE log
\* prune_old_logs: the work log file after the call
prune_old_logs(log, now, months_to_keep) ==
    IF log = <<>> THEN log
    ELSE LET kept == logs_to_keep(log, cutoff_date(now, months_to_keep))
             pruned_count == Len(log) - Len(kept)
         IN IF pruned_count > 0 THEN kept ELSE log

\* ------------------------------------------------------- deadline checker
\* A to-do item is [task, group, deadline]; deadline is <<>> when the item has
\* no "deadline" key and <<text>> when it has one.
\* todo.get("deadline"), line 193: truthy only for a non-empty text
get_deadline(todo) == todo.deadline # <<>> /\ todo.deadline[1] # <<>>
\* lines 201-209: the item's parsed deadline, when it has one that parses
parses(todo) == todo.deadline # <<>> /\ strptime_ok(todo.deadline[1])
is_overdue(todo, today) == parses(todo) /\ strptime(todo.deadline[1]) < today
\* (variant: the day after tomorrow is no longer "soon")
is_upcoming_one_day_short(todo, today) ==
    /\ parses(todo)
    /\ today <= strptime(todo.deadline[1])
    /\ strptime(todo.deadline[1]) < today + 2
is_upcoming(todo, today) ==
    /\ parses(todo)
    /\ ~ (strptime(todo.deadline[1]) < today)
    /\ today <= strptime(todo.deadline[1])
    /\ strptime(todo.deadline[1]) <= today + 2
\* check_deadlines: what one call prints
check_deadlines(items, today) ==
    LET overdue_tasks == SelectSeq(items, LAMBDA todo : is_overdue(todo, today))
        upcoming_tasks == SelectSeq(items, LAMBDA todo : is_upcoming(todo, today))
    IN IF ~ \E i \in 1..Len(items) : get_deadline(items[i])
       THEN [out |-> "silent", overdue |-> <<>>, upcoming |-> <<>>]
       ELSE IF overdue_tasks = <<>> /\ upcoming_tasks = <<>>
       THEN [out |-> "silent", overdue |-> <<>>, upcoming |-> <<>>]
       ELSE [out |-> "notify", overdue |-> overdue_tasks, upcoming |-> upcoming_tasks]

\* ------------------------------------------------------------ invocations
\* (variant: the double-start check never fires)
already_active_never(session) == FALSE
\* start_work, line 63: the double-start check
already_active(session) == session # <<>>
\* start_work, line 69: the marker written
new_session(now) == [start_time |-> isoformat(now)]
\* stop_work, line 78: nothing to stop
no_session(session) == session = <<>>
\* (variant: the entry is stamped with the stop time at both ends)
log_entry_end_only(start_time, end_time) ==
    [start |-> isoformat(end_time), end |-> isoformat(end_time)]
\* stop_work, line 87: the entry appended
log_entry(start_time, end_time) ==
    [start |-> isoformat(start_time), end |-> isoformat(end_time)]
\* (variant: the log is written back without the new entry)
log_after_stop_unchanged(log, start_time, end_time) == log
\* stop_work, lines 86-88: the work log written
log_after_stop(log, start_time, end_time) == Append(log, log_entry(start_time, end_time))
\* (variant: the marker is left behind)
remove_marker_skipped(session) == session
\* stop_work, line 90: os.remove(ACTIVE_SESSION_FILE)
remove_marker(session) == <<>>

\* (variant: a failing systemctl call propagates to the caller)
hook_raises_on_failure(outcome) == outcome = "failed"
\* manage_systemd_service, lines 54-57: CalledProcessError and FileNotFoundError
\* are caught and reported
hook_raises(outcome) == FALSE

\* start_work (main, lines 323-324)
start_work ==
    LET session == get_active_session IN
    IF already_active(session)
    THEN /\ last' = [cmd |-> "start", arg |-> 0, now |-> clock, exit |-> 1,
                     out |-> "already_active", hook |-> "none", pre |-> store]
         /\ UNCHANGED <<clock, active_session, work_log, todos, service, hist, procs>>
    ELSE /\ hist.events < MaxEvents
         /\ \E outcome \in HookOutcomes :
              /\ active_session' = <<new_session(clock)>>
              /\ service' = manage_systemd_service("start", outcome)
              /\ last' = [cmd |-> "start", arg |-> 0, now |-> clock,
                          exit |-> IF hook_raises(outcome) THEN 1 ELSE 0,
                          out |-> IF hook_raises(outcome) THEN "traceback" ELSE "started",
                          hook |-> "start", hook_outcome |-> outcome,
                          notices |-> check_deadlines(read_json_file(todos, <<>>), date(clock)),
                          pre |-> store]
         /\ hist' = [hist EXCEPT !.starts = @ + 1, !.events = @ + 1, !.started_at = clock]
         /\ UNCHANGED <<clock, work_log, todos, procs>>

\* (variant: the idle stop falls through to the automatic pruning)
stop_nothing_prunes ==
    \E outcome \in HookOutcomes :
        /\ service' = manage_systemd_service("stop", outcome)
        /\ work_log' = prune_old_logs(read_json_file(work_log, <<>>), clock,
                                      DEFAULT_MONTHS_TO_KEEP)
        /\ last' = [cmd |-> "stop", arg |-> 0, now |-> clock, exit |-> 0,
                    out |-> "no_active", hook |-> "stop", hook_outcome |-> outcome,
                    pre |-> store]
        /\ UNCHANGED <<clock, active_session, todos, hist, procs>>
\* stop_work, lines 78-81: no session is active
stop_nothing ==
    \E outcome \in HookOutcomes :
        /\ service' = manage_systemd_service("stop", outcome)
        /\ last' = [cmd |-> "stop", arg |-> 0, now |-> clock,
                    exit |-> IF hook_raises(outcome) THEN 1 ELSE 0,
                    out |-> IF hook_raises(outcome) THEN "traceback" ELSE "no_active",
                    hook |-> "stop", hook_outcome |-> outcome,
                    pre |-> store]
        /\ UNCHANGED <<clock, active_session, work_log, todos, hist, procs>>

\* stop_work, lines 83-101: a session is active
stop_session(session) ==
    \E outcome \in HookOutcomes, d \in Drift :
        LET start_time == fromisoformat(session[1].start_time)
            end_time == clock
            written == log_after_stop(read_json_file(work_log, <<>>), start_time, end_time)
        IN /\ work_log' = IF hook_raises(outcome) THEN written
                           ELSE prune_old_logs(written, clock + d, DEFAULT_MONTHS_TO_KEEP)
           /\ active_session' = remove_marker(active_session)
           /\ service' = manage_systemd_service("stop", outcome)
           /\ clock' = clock + d
           /\ last' = [cmd |-> "stop", arg |-> 0, now |-> clock,
                       exit |-> IF hook_raises(outcome) THEN 1 ELSE 0,
                       out |-> IF hook_raises(outcome) THEN "traceback" ELSE "stopped",
                       hook |-> "stop", hook_outcome |-> outcome,
                       duration |-> end_time - start_time,
                       prune_now |-> clock + d, pre |-> store]
           /\ hist' = [hist EXCEPT !.stops = @ + 1]
           /\ UNCHANGED <<todos, procs>>

\* stop_work (main, lines 325-326)
stop_work ==
    LET session == get_active_session IN
    IF no_session(session) THEN stop_nothing ELSE stop_session(session)

\* (variant: status rewrites the marker with the current time)
show_status_restarts ==
    LET session == get_active_session IN
    /\ last' = IF no_session(session)
               THEN [cmd |-> "status", arg |-> 0, now |-> clock, exit |-> 0,
                     out |-> "not_working", pre |-> store]
               ELSE [cmd |-> "status", arg |-> 0, now |-> clock, exit |-> 0,
                     out |-> "working",
                     duration |-> clock - fromisoformat(session[1].start_time),
                     pre |-> store]
    /\ active_session' = IF no_session(session) THEN session ELSE <<new_session(clock)>>
    /\ UNCHANGED <<clock, work_log, todos, service, hist, procs>>
\* show_status (main, lines 327-328)
show_status ==
    LET session == get_active_session IN
    /\ last' = IF no_session(session)
               THEN [cmd |-> "status", arg |-> 0, now |-> clock, exit |-> 0,
                     out |-> "not_working", pre |-> store]
               ELSE [cmd |-> "status", arg |-> 0, now |-> clock, exit |-> 0,
                     out |-> "working",
                     duration |-> clock - fromisoformat(session[1].start_time),
                     pre |-> store]
    /\ UNCHANGED <<clock, active_session, work_log, todos, service, hist, procs>>

\* show_log(week_offset) (main, lines 330-332)
log_show(week_offset) ==
    /\ last' = [cmd |-> "log_show", arg |-> week_offset, now |-> clock, exit |-> 0,
                window |-> <<start_of_week(clock, week_offset), end_of_week(clock, week_offset)>>,
                shown |-> show_log(read_json_file(work_log, <<>>), clock, week_offset),
                pre |-> store]
    /\ UNCHANGED <<clock, active_session, work_log, todos, service, hist, procs>>

\* prune_old_logs(args.months) (main, lines 333-334)
log_prune(months) ==
    /\ work_log' = prune_old_logs(read_json_file(work_log, <<>>), clock, months)
    /\ last' = [cmd |-> "log_prune", arg |-> months, now |-> clock, exit |-> 0,
                pruned_count |-> Len(work_log) - Len(work_log'),
                follows |-> IF last.cmd = "log_prune" THEN <<[arg |-> last.arg, now |-> last.now]>>
                            ELSE <<>>,
                pre |-> store]
    /\ UNCHANGED <<clock, active_session, todos, service, hist, procs>>

\* check_deadlines (main, lines 338-339)
todo_check ==
    /\ last' = [cmd |-> "todo_check", arg |-> 0, now |-> clock, exit |-> 0,
                notices |-> check_deadlines(read_json_file(todos, <<>>), date(clock)),
                pre |-> store]
    /\ UNCHANGED <<clock, active_session, work_log, todos, service, hist, procs>>

\* The wall clock advances between invocations
Tick ==
    /\ hist.events < MaxEvents
    /\ \E d \in Steps : clock' = clock + d
    /\ hist' = [hist EXCEPT !.events = @ + 1]
    /\ UNCHANGED <<active_session, work_log, todos, service, last, procs>>

\* ----------------------------------------------------------- to-do manager
Tasks == {"report"}
Groups == {"General"}
\* the -d option: <<>> when not given, <<text>> when given
DeadlineArgs == {<<>>, << <<2024, 1, 2>> >>, << <<2024, 13, 1>> >>}

\* list_todos, lines 237-238: the display IDs
list_todos(items) ==
    [i \in 1..Len(items) |-> [id |-> i, task |-> items[i].task, group |-> items[i].group]]

\* add_todo, lines 259-265: the deadline check
deadline_given(deadline) == deadline # <<>> /\ deadline[1] # <<>>
deadline_rejected(deadline) == deadline_given(deadline) /\ ~ strptime_ok(deadline[1])
\* add_todo, lines 258-262: the new item
new_todo(task, group, deadline) ==
    [task |-> task, group |-> group,
     deadline |-> IF deadline_given(deadline) THEN deadline ELSE <<>>]

\* add_todo(args.task, args.group, args.deadline) (main, lines 340-341)
todo_add(task, group, deadline) ==
    LET items == read_json_file(todos, <<>>) IN
    IF deadline_rejected(deadline)
    THEN /\ last' = [cmd |-> "todo_add", arg |-> 0, now |-> clock, exit |-> 1,
                     task |-> task, group |-> group, deadline |-> deadline,
                     out |-> "invalid_deadline", pre |-> store]
         /\ UNCHANGED <<clock, active_session, work_log, todos, service, hist, procs>>
    ELSE /\ todos' = Append(items, new_todo(task, group, deadline))
         /\ last' = [cmd |-> "todo_add", arg |-> 0, now |-> clock, exit |-> 0,
                     task |-> task, group |-> group, deadline |-> deadline,
                     out |-> "added", listing |-> list_todos(todos'), pre |-> store]
         /\ UNCHANGED <<clock, active_session, work_log, service, hist, procs>>

\* (variant: the IDs are taken as zero-based)
invalid_id_zero_based(todo_id, items) == ~ (0 <= todo_id /\ todo_id < Len(items))
\* remove_todo, line 275: the range check
invalid_id(todo_id, items) == ~ (0 < todo_id /\ todo_id <= Len(items))
\* (variant: todos.pop() takes the last item)
pop_last(items, todo_id) == SubSeq(items, 1, Len(items) - 1)
\* remove_todo, line 279: todos.pop(todo_id - 1)
pop(items, todo_id) ==
    SubSeq(items, 1, todo_id - 1) \o SubSeq(items, todo_id + 1, Len(items))

\* remove_todo(args.id) (main, lines 342-343)
todo_rm(todo_id) ==
    LET items == read_json_file(todos, <<>>) IN
    IF invalid_id(todo_id, items)
    THEN /\ last' = [cmd |-> "todo_rm", arg |-> todo_id, now |-> clock, exit |-> 1,
                     out |-> "invalid_id", pre |-> store]
         /\ UNCHANGED <<clock, active_session, work_log, todos, service, hist, procs>>
    ELSE /\ todos' = pop(items, todo_id)
         /\ last' = [cmd |-> "todo_rm", arg |-> todo_id, now |-> clock, exit |-> 0,
                     out |-> "removed", listing |-> list_todos(todos'), pre |-> store]
         /\ UNCHANGED <<clock, active_session, work_log, service, hist, procs>>

\* list_todos (main, lines 336-337)
todo_list ==
    /\ last' = [cmd |-> "todo_list", arg |-> 0, now |-> clock, exit |-> 0,
                listing |-> list_todos(read_json_file(todos, <<>>)), pre |-> store]
    /\ UNCHANGED <<clock, active_session, work_log, todos, service, hist, procs>>

\* ---------------------------------------------------------- specification
NoInvocation == [cmd |-> "none", arg |-> 0, now |-> 0]
NoHistory == [starts |-> 0, stops |-> 0, events |-> 0, started_at |-> 0]

\* A fresh data directory (setup_environment), nothing run yet
Init ==
    /\ clock = 0
    /\ active_session = <<>>
    /\ work_log = <<>>
    /\ todos = <<>>
    /\ service = FALSE
    /\ last = NoInvocation
    /\ hist = NoHistory
    /\ procs = [p \in Procs |-> NotRunning]

Next ==
    \/ start_work
    \/ stop_work
    \/ show_status
    \/ \E week_offset \in Offsets : log_show(week_offset)
    \/ \E months \in Months : log_prune(months)
    \/ todo_check
    \/ todo_list
    \/ /\ Len(todos) < MaxTodos
       /\ \E task \in Tasks, group \in Groups, deadline \in DeadlineArgs :
             todo_add(task, group, deadline)
    \/ \E todo_id \in 0..(MaxTodos + 1) : todo_rm(todo_id)
    \/ Tick

Spec == Init /\ [][Next]_vars

\* ------------------------------------------ the log aggregator on any log
\* The work log is a file: its entries are whatever earlier sessions (under
\* whatever wall clock) or the user's editor left there, in any order.
SeqsUpTo(S, n) == UNION {[1..k -> S] : k \in 0..n}
EntryStarts == {1, Week, Week + 1, Week + 3}
EntryDurations == {0, 2}
LogEntries == {log_entry(s, s + d) : s \in EntryStarts, d \in EntryDurations}
LogClocks == {Week + 1, Week + 3, 2 * Week - 1}

InitLog ==
    /\ clock \in LogClocks
    /\ active_session = <<>>
    /\ work_log \in SeqsUpTo(LogEntries, MaxLog)
    /\ todos = <<>>
    /\ service = FALSE
    /\ last = NoInvocation
    /\ hist = NoHistory
    /\ procs = [p \in Procs |-> NotRunning]

NextLog ==
    \/ \E week_offset \in Offsets : log_show(week_offset)
    \/ \E months \in Months : log_prune(months)
    \/ Tick

SpecLog == InitLog /\ [][NextLog]_vars

\* --------------------------------------- the deadline checker on any list
\* The to-do list is a file too: deadlines in it may be absent, empty or
\* not a date at all.
ItemDeadlines ==
    {<<>>, << <<>> >>, << <<0>> >>, << <<2024, 13, 1>> >>,
     << <<2024, 1, 9>> >>, << <<2024, 1, 10>> >>, << <<2024, 1, 12>> >>, << <<2024, 1, 13>> >>}
Items == {[task |-> "report", group |-> "General", deadline |-> d] : d \in ItemDeadlines}
\* 2024-01-09 12:00, 2024-01-10 00:00 and 12:00, 2024-01-11 00:00
DeadlineClocks == {8 * Day + 1, 9 * Day, 9 * Day + 1, 10 * Day}

InitDeadlines ==
    /\ clock \in DeadlineClocks
    /\ active_session = <<>>
    /\ work_log = <<>>
    /\ todos \in SeqsUpTo(Items, MaxItems)
    /\ service = FALSE
    /\ last = NoInvocation
    /\ hist = NoHistory
    /\ procs = [p \in Procs |-> NotRunning]

NextDeadlines ==
    \/ todo_check
    \/ start_work
    \/ Tick

SpecDeadlines == InitDeadlines /\ [][NextDeadlines]_vars

\* ------------------------------------------ the to-do manager on any list
\* A to-do list as earlier add and rm invocations left it: every deadline
\* in it is absent or a date that add_todo accepted.
TodoTasks == {"report", "email"}
StoredDeadlines == {<<>>, << <<2024, 1, 2>> >>}
\* the -d option again, now with -d "" and a day that February lacks
TodoDeadlineArgs == DeadlineArgs \cup {<< <<>> >>, << <<2024, 2, 30>> >>}
TodoItems == {new_todo(task, group, d) : task \in TodoTasks, group \in Groups, d \in StoredDeadlines}

InitTodo ==
    /\ clock = 0
    /\ active_session = <<>>
    /\ work_log = <<>>
    /\ todos \in SeqsUpTo(TodoItems, MaxItems)
    /\ service = FALSE
    /\ last = NoInvocation
    /\ hist = NoHistory
    /\ procs = [p \in Procs |-> NotRunning]

NextTodo ==
    \/ /\ Len(todos) <= MaxItems
       /\ \E task \in TodoTasks, group \in Groups, deadline \in TodoDeadlineArgs :
             todo_add(task, group, deadline)
    \/ \E todo_id \in (-1)..(MaxItems + 2) : todo_rm(todo_id)
    \/ todo_list

SpecTodo == InitTodo /\ [][NextTodo]_vars

\* ------------------------------------------- sessions under a wall clock
\* datetime.now() is the host's local wall time: besides advancing it can be
\* set back between two invocations (a clock correction, the end of
\* daylight saving time) to a reading that falls in the previous tick.
BackSteps == {1}
ClockSetBack ==
    /\ hist.events < MaxEvents
    /\ \E d \in BackSteps : clock' = clock - d
    /\ hist' = [hist EXCEPT !.events = @ + 1]
    /\ UNCHANGED <<active_session, work_log, todos, service, last, procs>>

NextWallClock ==
    \/ start_work
    \/ stop_work
    \/ show_status
    \/ \E week_offset \in Offsets : log_show(week_offset)
    \/ Tick
    \/ ClockSetBack

SpecWallClock == Init /\ [][NextWallClock]_vars

\* ------------------------------------------------- the duration report
\* stop_work, show_status and show_log (each session line and the weekly
\* total) print a timedelta the same way; ticks are too coarse to show the
\* minutes, so the report is applied to durations given in seconds.
\* (variant: the minutes are rounded to the nearest minute)
hours_minutes_rounded(total_seconds) ==
    LET hours == total_seconds \div 3600
        remainder == total_seconds % 3600
    IN [hours |-> hours, minutes |-> (remainder + 30) \div 60]
\* hours, remainder = divmod(total_seconds, 3600); minutes, _ = divmod(remainder, 60);
\* printed as int(hours), int(minutes)
hours_minutes(total_seconds) ==
    LET hours == total_seconds \div 3600
        remainder == total_seconds % 3600
    IN [hours |-> hours, minutes |-> remainder \div 60]

report_duration(total_seconds) ==
    /\ last' = [cmd |-> "duration", arg |-> total_seconds, now |-> clock, exit |-> 0,
                shown |-> hours_minutes(total_seconds), pre |-> store]
    /\ UNCHANGED <<clock, active_session, work_log, todos, service, hist, procs>>

NextDuration ==
    \E total_seconds \in 0..MaxSeconds : report_duration(total_seconds)

SpecDuration == Init /\ [][NextDuration]_vars

\* ------------------------------- stop_work, one file operation at a time
\* procs[p].pc is the next file operation of invocation p; session, end_time
\* and log are its local variables, before is the work log on disk when it
\* began.  A file opened for writing is empty until the dump has gone
\* through, and an empty or half-written file reads as the default.
Running == {"read_log", "open_log", "dump_log", "remove", "hook",
            "prune_read", "prune_open", "prune_dump"}
Quiescent == \A p \in Procs : procs[p].pc = "idle"
\* write_json_file, line 40: open(file_path, 'w')
truncated(file) == <<>>

\* stop_work, lines 77-84: the marker is read, then the clock
stop_reads_marker(p) ==
    /\ procs[p].pc = "idle"
    /\ LET session == get_active_session IN
       IF no_session(session)
       THEN \E outcome \in HookOutcomes :
              /\ service' = manage_systemd_service("stop", outcome)
              /\ procs' = [procs EXCEPT ![p] = [NotRunning EXCEPT
                              !.pc = IF hook_raises(outcome) THEN "error" ELSE "done",
                              !.before = work_log]]
       ELSE /\ procs' = [procs EXCEPT ![p] = [pc |-> "read_log", session |-> session,
                              end_time |-> clock, log |-> <<>>, before |-> work_log]]
            /\ UNCHANGED service
    /\ UNCHANGED <<clock, active_session, work_log, todos, last, hist>>

\* stop_work, line 86
stop_reads_log(p) ==
    /\ procs[p].pc = "read_log"
    /\ procs' = [procs EXCEPT ![p].pc = "open_log",
                              ![p].log = read_json_file(work_log, <<>>)]
    /\ UNCHANGED <<clock, active_session, work_log, todos, service, last, hist>>

\* stop_work, line 88: write_json_file opens the work log
stop_opens_log(p) ==
    /\ procs[p].pc = "open_log"
    /\ work_log' = truncated(work_log)
    /\ procs' = [procs EXCEPT ![p].pc = "dump_log"]
    /\ UNCHANGED <<clock, active_session, todos, service, last, hist>>

\* stop_work, lines 87-88: write_json_file dumps the log with the new entry
stop_dumps_log(p) ==
    /\ procs[p].pc = "dump_log"
    /\ work_log' = log_after_stop(procs[p].log,
                                  fromisoformat(procs[p].session[1].start_time),
                                  procs[p].end_time)
    /\ procs' = [procs EXCEPT ![p].pc = "remove"]
    /\ UNCHANGED <<clock, active_session, todos, service, last, hist>>

\* stop_work, line 90: os.remove raises FileNotFoundError when the marker is gone
stop_removes_marker(p) ==
    /\ procs[p].pc = "remove"
    /\ IF active_session = <<>>
       THEN /\ procs' = [procs EXCEPT ![p].pc = "error"]
            /\ UNCHANGED active_session
       ELSE /\ active_session' = remove_marker(active_session)
            /\ procs' = [procs EXCEPT ![p].pc = "hook"]
    /\ UNCHANGED <<clock, work_log, todos, service, last, hist>>

\* stop_work, lines 91-98: the systemd call and the duration report
stop_calls_hook(p) ==
    /\ procs[p].pc = "hook"
    /\ \E outcome \in HookOutcomes :
          /\ service' = manage_systemd_service("stop", outcome)
          /\ procs' = [procs EXCEPT ![p].pc =
                          IF hook_raises(outcome) THEN "error" ELSE "prune_read"]
    /\ UNCHANGED <<clock, active_session, work_log, todos, last, hist>>

\* prune_old_logs, lines 162-179, called at line 101
prune_reads_log(p) ==
    /\ procs[p].pc = "prune_read"
    /\ \E d \in Drift :
          LET log == read_json_file(work_log, <<>>)
              kept == logs_to_keep(log, cutoff_date(clock + d, DEFAULT_MONTHS_TO_KEEP))
              pruned_count == Len(log) - Len(kept)
          IN /\ clock' = clock + d
             /\ procs' = IF log = <<>> \/ pruned_count = 0
                         THEN [procs EXCEPT ![p].pc = "done"]
                         ELSE [procs EXCEPT ![p].pc = "prune_open", ![p].log = kept]
    /\ UNCHANGED <<active_session, work_log, todos, service, last, hist>>

\* prune_old_logs, line 181: write_json_file opens the work log
prune_opens_log(p) ==
    /\ procs[p].pc = "prune_open"
    /\ work_log' = truncated(work_log)
    /\ procs' = [procs EXCEPT ![p].pc = "prune_dump"]
    /\ UNCHANGED <<clock, active_session, todos, service, last, hist>>

\* prune_old_logs, line 181: write_json_file dumps the entries kept
prune_dumps_log(p) ==
    /\ procs[p].pc = "prune_dump"
    /\ work_log' = procs[p].log
    /\ procs' = [procs EXCEPT ![p].pc = "done"]
    /\ UNCHANGED <<clock, active_session, todos, service, last, hist>>

\* the process is gone (exit 0, traceback, or killed) and can be run again
process_exits(p) ==
    /\ procs[p].pc \in {"done", "error", "killed"}
    /\ procs' = [procs EXCEPT ![p] = NotRunning]
    /\ UNCHANGED <<clock, active_session, work_log, todos, service, last, hist>>

\* the process is killed between two file operations
Kill(p) ==
    /\ procs[p].pc \in Running
    /\ hist.events < MaxEvents
    /\ procs' = [procs EXCEPT ![p].pc = "killed"]
    /\ hist' = [hist EXCEPT !.events = @ + 1]
    /\ UNCHANGED <<clock, active_session, work_log, todos, service, last>>

stop_step(p) ==
    \/ stop_reads_marker(p)
    \/ stop_reads_log(p)
    \/ stop_opens_log(p)
    \/ stop_dumps_log(p)
    \/ stop_removes_marker(p)
    \/ stop_calls_hook(p)
    \/ prune_reads_log(p)
    \/ prune_opens_log(p)
    \/ prune_dumps_log(p)
    \/ process_exits(p)

\* One stop at a time, which may be killed, on a work log that earlier
\* sessions left on disk
NextCrash ==
    \/ Quiescent /\ start_work
    \/ Quiescent /\ Tick
    \/ stop_step("user")
    \/ Kill("user")

SpecCrash == InitLog /\ [][NextCrash]_vars

\* The user's stop and the shutdown unit's stop side by side.  Two sessions
\* never start at the same instant: a start finds no logged entry that starts
\* at its own clock reading, so an entry's start tells whose session it is.
NewInstant == \A i \in 1..Len(work_log) : work_log[i].start # isoformat(clock)
NextRace ==
    \/ Quiescent /\ NewInstant /\ start_work
    \/ Quiescent /\ Tick
    \/ \E p \in Procs : stop_step(p)

SpecRace == Init /\ [][NextRace]_vars

\* ================================================================ claims
Front(seq) == SubSeq(seq, 1, Len(seq) - 1)
StoreUnchanged ==
    /\ active_session = last.pre[1]
    /\ work_log = last.pre[2]
    /\ todos = last.pre[3]
\* a is b with some elements left out
RECURSIVE IsSubsequence(_, _)
IsSubsequence(a, b) ==
    IF a = <<>> THEN TRUE
    ELSE IF b = <<>> THEN FALSE
    ELSE IF Head(a) = Head(b) THEN IsSubsequence(Tail(a), Tail(b))
    ELSE IsSubsequence(a, Tail(b))

\* C1: start invoked while a session is active fails with AlreadyActive
\* (exit code 1) and leaves the marker (with its start timestamp), the work
\* log and the to-do list as they were.
C1_StartWhileActiveFails ==
    (last.cmd = "start" /\ last.pre[1] # <<>>) =>
        /\ last.exit = 1
        /\ last.out = "already_active"
        /\ StoreUnchanged
        /\ active_session[1].start_time = last.pre[1][1].start_time

C1_Witness ==
    /\ last.cmd = "start"
    /\ last.pre[1] # <<>>
    /\ last.now > fromisoformat(last.pre[1][1].start_time)
    /\ work_log # <<>>
    /\ todos # <<>>

\* C2: a start at clock t1 followed by a stop at clock t2 appends exactly one
\* entry, {start: t1, end: t2}, to the work log (so end - start is the time
\* elapsed) and leaves no marker.
C2_StartStopLogsOneEntry ==
    (last.cmd = "stop" /\ last.pre[1] # <<>>) =>
        LET t1 == hist.started_at
            t2 == last.now
        IN /\ last.pre[1][1].start_time = <<t1 \div 2, t1 % 2>>
           /\ active_session = <<>>
           /\ work_log # <<>>
           /\ work_log[Len(work_log)] = [start |-> <<t1 \div 2, t1 % 2>>,
                                          end |-> <<t2 \div 2, t2 % 2>>]
           /\ fromisoformat(work_log[Len(work_log)].end)
                  - fromisoformat(work_log[Len(work_log)].start) = t2 - t1
           /\ last.duration = t2 - t1
           /\ IsSubsequence(Front(work_log), last.pre[2])
           /\ (\A i \in DOMAIN last.pre[2] :
                   fromisoformat(last.pre[2][i].end) >= last.prune_now - 366)
                  => Front(work_log) = last.pre[2]

C2_Witness ==
    /\ last.cmd = "stop"
    /\ last.pre[1] # <<>>
    /\ last.now > hist.started_at
    /\ Len(work_log) = 2
    /\ work_log[1] # work_log[2]

\* C3: stop invoked while idle succeeds (exit code 0), leaves the work log,
\* the to-do list and the absent marker as they were, prunes nothing, and
\* still attempts to unregister the shutdown hook.
C3_StopWhileIdleIsNoOp ==
    (last.cmd = "stop" /\ last.pre[1] = <<>>) =>
        /\ last.exit = 0
        /\ last.out = "no_active"
        /\ StoreUnchanged
        /\ active_session = <<>>
        /\ last.hook = "stop"

\* an idle stop with an entry in the log that the automatic pruning would drop
C3_Witness ==
    /\ last.cmd = "stop"
    /\ last.pre[1] = <<>>
    /\ work_log # <<>>
    /\ todos # <<>>
    /\ \E i \in DOMAIN work_log : fromisoformat(work_log[i].end) < last.now - 366

\* C4: in every reachable state there is at most one marker, and the
\* successful starts minus the stops that logged an entry is 0 when idle and
\* 1 when active.
C4_StartsAndStopsAlternate ==
    /\ Len(active_session) <= 1
    /\ hist.starts - hist.stops \in {0, 1}
    /\ (hist.starts - hist.stops = 1) <=> (active_session # <<>>)

\* a second session is open, after a refused start
C4_Witness ==
    /\ hist.starts = 2
    /\ hist.stops = 1
    /\ active_session # <<>>
    /\ last.cmd = "start"
    /\ last.exit = 1

\* C5: the window of show_log(offset) starts at 00:00 of the Monday of the
\* week containing now, shifted by offset weeks, and ends 7 days later; so an
\* entry started between Monday 00:00 of this week and now is in the
\* offset-0 window.  (A tick is 12 hours: a day is 2 ticks, a week 14.)
C5_WindowStartsMondayMidnight ==
    last.cmd = "log_show" =>
        LET now == last.now
            monday == ((now \div 2) - ((now \div 2) % 7)) * 2
            first == monday + last.arg * 14
            log == last.pre[2]
        IN /\ last.window = <<first, first + 14>>
           /\ last.arg = 0 =>
                 \A i \in DOMAIN log :
                     (monday <= fromisoformat(log[i].start) /\ fromisoformat(log[i].start) <= now)
                         => \E k \in DOMAIN last.shown.sessions :
                                last.shown.sessions[k].start = fromisoformat(log[i].start)

\* C6: the offset-0 window contains now, and the offset -1 window computed
\* at the same instant ends where the offset-0 window starts.
C6_WindowContainsNowAndAdjoins ==
    last.cmd = "log_show" =>
        /\ last.arg = 0 => (last.window[1] <= last.now /\ last.now < last.window[2])
        /\ last.arg = -1 => last.window[2] = start_of_week(last.now, 0)
        /\ last.arg = 0 => last.window[1] = end_of_week(last.now, -1)

\* the current week shown on a Sunday afternoon
C6_Witness ==
    /\ last.cmd = "log_show"
    /\ last.arg = 0
    /\ (last.now \div 2) % 7 = 6
    /\ last.now % 2 = 1

\* C7 (helpers): the entries of the log whose start is in the window
Matching(log, window) ==
    {i \in DOMAIN log : /\ window[1] <= fromisoformat(log[i].start)
                        /\ fromisoformat(log[i].start) < window[2]}
Duration(entry) == fromisoformat(entry.end) - fromisoformat(entry.start)
Line(entry) == [start |-> fromisoformat(entry.start), duration |-> Duration(entry)]
RECURSIVE SumDurations(_, _)
SumDurations(log, indices) ==
    IF indices = {} THEN 0
    ELSE LET i == CHOOSE i \in indices : TRUE
         IN Duration(log[i]) + SumDurations(log, indices \ {i})
\* what show_log lists and totals, whatever it says when it lists nothing
C7_ListsTheMatches ==
    LET log == last.pre[2]
        matching == Matching(log, last.window)
        sessions == last.shown.sessions
    IN /\ last.exit = 0
       /\ StoreUnchanged
       /\ Len(sessions) = Cardinality(matching)
       /\ \A i \in matching :
              Cardinality({k \in DOMAIN sessions : sessions[k] = Line(log[i])})
                  = Cardinality({j \in matching : Line(log[j]) = Line(log[i])})
       /\ \A k \in 1..(Len(sessions) - 1) : sessions[k].start <= sessions[k + 1].start
       /\ last.shown.total = SumDurations(log, matching)

\* C7, as stated: show_log reports exactly the entries whose start is in the
\* window, in ascending order of start, with the total of their durations;
\* when no entry matches it reports "no sessions this week"; it never
\* modifies the store.
C7_AsStated ==
    last.cmd = "log_show" =>
        /\ C7_ListsTheMatches
        /\ last.shown.out = IF Matching(last.pre[2], last.window) = {}
                            THEN "no_sessions" ELSE "report"

\* C7, amended: as above, except that on an empty work log the report is
\* "work log is empty" and not "no sessions this week".
C7_ShowLogReportsWeek ==
    last.cmd = "log_show" =>
        /\ C7_ListsTheMatches
        /\ last.shown.out = IF last.pre[2] = <<>> THEN "log_empty"
                            ELSE IF Matching(last.pre[2], last.window) = {}
                            THEN "no_sessions" ELSE "report"

\* a log stored out of order, both entries in the week shown
C7_Witness ==
    /\ last.cmd = "log_show"
    /\ Len(work_log) = 2
    /\ fromisoformat(work_log[1].start) > fromisoformat(work_log[2].start)
    /\ Len(last.shown.sessions) = 2
    /\ last.shown.total > 0

\* C8: prune(m) at clock now leaves exactly the entries with
\* end >= now - m * 30.5 days (61 ticks a month), the one that ends exactly
\* at the cutoff included, in their original order.
C8_PruneKeepsExactlyRecent ==
    last.cmd = "log_prune" =>
        /\ work_log = SelectSeq(last.pre[2],
                LAMBDA entry : fromisoformat(entry.end) >= last.now - last.arg * 61)
        /\ last.pruned_count = Len(last.pre[2]) - Len(work_log)
        /\ last.exit = 0

\* one entry ends exactly at the cutoff and stays, an older one goes
C8_Witness ==
    /\ last.cmd = "log_prune"
    /\ last.arg = DEFAULT_MONTHS_TO_KEEP
    /\ Len(last.pre[2]) = 2
    /\ fromisoformat(last.pre[2][1].end) < last.now - last.arg * 61
    /\ fromisoformat(last.pre[2][2].end) = last.now - last.arg * 61
    /\ work_log = <<last.pre[2][2]>>

\* C9, as stated: the second of two consecutive prune(m) invocations, each
\* reading the current clock, removes no entry.
C9_AsStated ==
    (last.cmd = "log_prune" /\ last.follows # <<>> /\ last.follows[1].arg = last.arg)
        => last.pruned_count = 0

\* C9, amended: the second of two consecutive prune(m) invocations removes
\* exactly the entries whose end lies between the first cutoff (included)
\* and the second (excluded): none when both read the same clock.
C9_SecondPruneRemovesBetweenCutoffs ==
    (last.cmd = "log_prune" /\ last.follows # <<>> /\ last.follows[1].arg = last.arg) =>
        LET log == last.pre[2]
            first_cutoff == last.follows[1].now - last.arg * 61
            second_cutoff == last.now - last.arg * 61
        IN /\ last.pruned_count =
                Cardinality({i \in DOMAIN log : /\ first_cutoff <= fromisoformat(log[i].end)
                                                /\ fromisoformat(log[i].end) < second_cutoff})
           /\ Len(work_log) = Len(log) - last.pruned_count
           /\ last.follows[1].now = last.now => (last.pruned_count = 0 /\ work_log = log)

\* a second prune at the same clock, with entries left to keep
C9_Witness ==
    /\ last.cmd = "log_prune"
    /\ last.follows # <<>>
    /\ last.follows[1].arg = last.arg
    /\ last.follows[1].now = last.now
    /\ Len(work_log) = 1
    /\ fromisoformat(work_log[1].end) = last.now - last.arg * 61

\* C10 (helper): the calendar day of each deadline text that is a date,
\* counted from 2024-01-01 = 0; the other texts ("", "2024-13-01", text that
\* is no date) have none, and neither has an item without a deadline.
DeadlineDays ==
    {<< <<2024, 1, 2>>, 1 >>, << <<2024, 1, 9>>, 8 >>, << <<2024, 1, 10>>, 9 >>,
     << <<2024, 1, 12>>, 11 >>, << <<2024, 1, 13>>, 12 >>}
DueBetween(todo, from, to) ==
    /\ todo.deadline # <<>>
    /\ \E p \in DeadlineDays : p[1] = todo.deadline[1] /\ from <= p[2] /\ p[2] <= to

\* C10: against the calendar date today, the overdue items are those whose
\* deadline is a date before today, the upcoming ones those whose deadline
\* is a date from today to today + 2 days; later, absent and unparsable
\* deadlines are in neither list and fail nothing; both lists are in the
\* order of the to-do list, which the check leaves as it was.
C10_DeadlinesClassified ==
    last.cmd \in {"todo_check", "start"} /\ last.exit = 0 =>
        LET items == last.pre[3]
            today == last.now \div 2
        IN /\ last.notices.overdue =
                SelectSeq(items, LAMBDA todo : DueBetween(todo, -100000, today - 1))
           /\ last.notices.upcoming =
                SelectSeq(items, LAMBDA todo : DueBetween(todo, today, today + 2))
           /\ last.notices.out = "silent" <=>
                (last.notices.overdue = <<>> /\ last.notices.upcoming = <<>>)
           /\ todos = items

\* on 2024-01-10: one item due 2024-13-01 (no date), one due 2024-01-12
C10_Witness ==
    /\ last.cmd = "todo_check"
    /\ last.now \div 2 = 9
    /\ Len(todos) = 2
    /\ todos[1].deadline = << <<2024, 13, 1>> >>
    /\ todos[2].deadline = << <<2024, 1, 12>> >>
    /\ last.notices.upcoming = <<todos[2]>>
    /\ last.notices.overdue = <<>>

\* A deadline text that is a YYYY-MM-DD calendar date
IsCalendarDate(text) ==
    /\ Len(text) = 3
    /\ text[1] \in 1..9999
    /\ text[2] \in 1..12
    /\ text[3] >= 1
    /\ text[3] <= IF text[2] \in {4, 6, 9, 11} THEN 30
                  ELSE IF text[2] # 2 THEN 31
                  ELSE IF text[1] % 4 = 0 /\ (text[1] % 100 # 0 \/ text[1] % 400 = 0) THEN 29
                  ELSE 28
\* The latest add_todo appended exactly the item asked for and nothing else
AddedOneItem ==
    /\ last.exit = 0
    /\ Len(todos) = Len(last.pre[3]) + 1
    /\ Front(todos) = last.pre[3]
    /\ todos[Len(todos)].task = last.task
    /\ todos[Len(todos)].group = last.group
    /\ active_session = last.pre[1]
    /\ work_log = last.pre[2]

\* C11: add with a deadline string that is not a calendar date exits
\* non-zero with the invalid-deadline error and leaves the to-do list, the
\* work log and the marker as they were; add with a valid or an absent
\* deadline appends exactly one item at the end of the list.
C11_AddValidatesDeadline ==
    last.cmd = "todo_add" =>
        IF last.deadline # <<>> /\ ~ IsCalendarDate(last.deadline[1])
        THEN last.exit = 1 /\ last.out = "invalid_deadline" /\ StoreUnchanged
        ELSE AddedOneItem /\ todos[Len(todos)].deadline = last.deadline

\* C12: rm with an ID below 1 or above the number of items (any ID on an
\* empty list) exits non-zero with the invalid-ID error and leaves the
\* to-do list as it was.
C12_RemoveRejectsBadId ==
    (last.cmd = "todo_rm" /\ (last.arg < 1 \/ last.arg > Len(last.pre[3]))) =>
        /\ last.exit = 1
        /\ last.out = "invalid_id"
        /\ StoreUnchanged
C12_Witness ==
    /\ last.cmd = "todo_rm"
    /\ Len(last.pre[3]) = 2
    /\ last.arg = 3
    /\ last.exit = 1
    /\ todos = last.pre[3]

\* C13: rm with an ID from 1 to the number of items removes exactly the item
\* at that position: the list is one shorter, the items before it keep their
\* positions, every item after it moves up by one, and the next listing
\* numbers the remaining items 1, 2, ... in that order.
C13_RemoveShiftsLaterItems ==
    (last.cmd = "todo_rm" /\ 1 <= last.arg /\ last.arg <= Len(last.pre[3])) =>
        /\ last.exit = 0
        /\ Len(todos) = Len(last.pre[3]) - 1
        /\ \A k \in 1..(last.arg - 1) : todos[k] = last.pre[3][k]
        /\ \A k \in (last.arg + 1)..Len(last.pre[3]) : todos[k - 1] = last.pre[3][k]
        /\ Len(last.listing) = Len(todos)
        /\ \A k \in 1..Len(todos) :
              last.listing[k].id = k /\ last.listing[k].task = todos[k].task
        /\ active_session = last.pre[1]
        /\ work_log = last.pre[2]
C13_Witness ==
    /\ last.cmd = "todo_rm"
    /\ last.arg = 1
    /\ Len(last.pre[3]) = 3
    /\ last.pre[3][1] # last.pre[3][2]
    /\ last.pre[3][2] # last.pre[3][3]
    /\ todos = <<last.pre[3][2], last.pre[3][3]>>

\* C14: neither outcome of the systemd call aborts the session operation:
\* every start from idle exits 0 with the marker written, and every stop of
\* an active session exits 0 with the entry appended, the marker deleted and
\* the automatic pruning done (no entry older than 6 * 30.5 days is left).
C14_HookFailureDoesNotAbort ==
    /\ (last.cmd = "start" /\ last.pre[1] = <<>>) =>
          /\ last.hook_outcome \in {"ok", "failed"}
          /\ last.exit = 0
          /\ active_session = <<[start_time |-> isoformat(last.now)]>>
    /\ (last.cmd = "stop" /\ last.pre[1] # <<>>) =>
          /\ last.hook_outcome \in {"ok", "failed"}
          /\ last.exit = 0
          /\ active_session = <<>>
          /\ work_log # <<>>
          /\ work_log[Len(work_log)] = [start |-> last.pre[1][1].start_time,
                                         end |-> isoformat(last.now)]
          /\ \A i \in 1..Len(work_log) :
                fromisoformat(work_log[i].end) >= last.prune_now - 366
C14_Witness ==
    /\ last.cmd = "stop"
    /\ last.pre[1] # <<>>
    /\ last.hook_outcome = "failed"
    /\ last.exit = 0
    /\ active_session = <<>>
    /\ last.pre[2] # <<>>
    /\ Len(work_log) = Len(last.pre[2])

\* C15: status changes nothing: while idle it reports not working, while a
\* session is active it reports the time elapsed since the marker's start,
\* and marker, work log and to-do list are as before, so the entry a later
\* stop logs still starts at the time the session was started.
C15_StatusIsReadOnly ==
    /\ last.cmd = "status" =>
          /\ last.exit = 0
          /\ StoreUnchanged
          /\ IF last.pre[1] = <<>>
             THEN last.out = "not_working"
             ELSE /\ last.out = "working"
                  /\ last.duration = last.now - fromisoformat(last.pre[1][1].start_time)
                  /\ active_session[1].start_time = isoformat(hist.started_at)
    /\ (last.cmd = "stop" /\ last.pre[1] # <<>>) =>
          /\ work_log # <<>>
          /\ work_log[Len(work_log)].start = isoformat(hist.started_at)
C15_Witness ==
    /\ last.cmd = "status"
    /\ last.out = "working"
    /\ last.duration = 1
    /\ active_session = <<[start_time |-> isoformat(last.now - 1)]>>

\* C16: in every reachable state every entry of the work log ends no
\* earlier than it starts, whatever the wall clock read at start and stop.
C16_EndNotBeforeStart ==
    \A i \in 1..Len(work_log) :
        fromisoformat(work_log[i].end) >= fromisoformat(work_log[i].start)

\* C17: a duration of s whole seconds, s >= 0, is shown as h hours and m
\* minutes with 0 <= m < 60 and 3600 h + 60 m <= s < 3600 h + 60 m + 60:
\* truncated to the minute, never rounded up, in the stop and status reports
\* and in each line and the total of the weekly report.
C17_DurationIsTruncated ==
    (last.cmd = "duration" /\ last.arg >= 0) =>
        LET s == last.arg
            h == last.shown.hours
            m == last.shown.minutes
        IN /\ h >= 0
           /\ 0 <= m /\ m < 60
           /\ 3600 * h + 60 * m <= s
           /\ s < 3600 * h + 60 * m + 60
C17_Witness ==
    /\ last.cmd = "duration"
    /\ last.arg = 3659
    /\ last.shown = [hours |-> 1, minutes |-> 0]

\* C18: the pruning that stop runs on an active session (6 months) keeps
\* the entry just appended and removes exactly the earlier entries that end
\* before its clock reading minus 6 * 30.5 days: the work log after stop is
\* the log before it without those entries, followed by the new entry.
C18_AutoPruneKeepsNewEntry ==
    (last.cmd = "stop" /\ last.pre[1] # <<>>) =>
        LET Recent(entry) == fromisoformat(entry.end) >= last.prune_now - 366
            appended == [start |-> last.pre[1][1].start_time, end |-> isoformat(last.now)]
        IN /\ work_log = Append(SelectSeq(last.pre[2], Recent), appended)
           /\ last.prune_now >= last.now
C18_Witness ==
    /\ last.cmd = "stop"
    /\ last.pre[1] # <<>>
    /\ Len(last.pre[2]) = 1
    /\ fromisoformat(last.pre[2][1].end) = last.prune_now - 367
    /\ work_log = <<[start |-> last.pre[1][1].start_time, end |-> isoformat(last.now)]>>

\* The work log holds the entry of the session that invocation p is stopping
Logged(p) ==
    \E i \in 1..Len(work_log) :
        work_log[i] = [start |-> procs[p].session[1].start_time,
                       end |-> isoformat(procs[p].end_time)]

\* C19: a stop killed between two of its file operations never loses the
\* session: after the kill the marker is still on disk or the session's
\* entry is in the work log.
C19_KilledStopKeepsSession ==
    \A p \in Procs :
        (procs[p].pc = "killed" /\ procs[p].session # <<>>) =>
            (active_session # <<>> \/ Logged(p))

\* Both invocations have run to their end on the marker of one session
BothStopped ==
    /\ \A p \in Procs : procs[p].pc \in {"done", "error"}
    /\ procs["user"].session # <<>>
    /\ procs["user"].session = procs["hook"].session
\* How many entries of the work log start when that session started
TimesLogged ==
    Cardinality({i \in 1..Len(work_log) :
                    work_log[i].start = procs["user"].session[1].start_time})
\* The entries that were in the log before, and are within retention now
Retained(p) ==
    {i \in 1..Len(procs[p].before) :
        /\ procs[p].before[i].start # procs[p].session[1].start_time
        /\ fromisoformat(procs[p].before[i].end) >= clock - 366}

====
